---- MODULE Spec2Model ----
(***************************************************************************)
(* The identity, credential and permission state machine of the PharmaLink *)
(* server: the User model with its mongoose hooks, the auth middleware and *)
(* gates, and the /auth and /admin routes, each handler one action.        *)
(***************************************************************************)
EXTENDS Integers, Sequences, FiniteSets, TLC

(* ------------------------------------------------------------------ *)
(* Bounds of the model                                                 *)
(* ------------------------------------------------------------------ *)

\* accounts ever created, the seeded superadmin included (ids are never reused)
MaxUsers == 2
\* audit entries ever appended
MaxLog == 4
\* entries of one account's status history
MaxHist == 4

(* ------------------------------------------------------------------ *)
(* Values                                                              *)
(* ------------------------------------------------------------------ *)

\* the JavaScript undefined, for an absent request field or property
Undefined == "undefined"

\* an absent ObjectId reference (undefined where an id is expected)
NoId == 0

Roles == {"user", "vendor", "admin", "superadmin"}

Statuses == {"active", "inactive", "suspended", "pending"}

PermissionNames ==
  {"manageUsers", "manageProducts", "manageOrders", "manageSettings",
   "promoteUsers", "viewAnalytics", "managePermissions"}

SeedEmail == "admin@pharmalink.com"

SeedPassword == "Admin@2024"

\* String.prototype.toLowerCase on the e-mail addresses of the model
ToLower(e) ==
  CASE e = "Acme@X.com" -> "acme@x.com"
    [] e = "Admin@PharmaLink.com" -> "admin@pharmalink.com"
    [] OTHER -> e

\* z.string().email()
IsEmail(e) == e # "not-an-email"

\* String.prototype.trim on the store fields of the model
Trim(s) ==
  CASE s = " " -> ""
    [] OTHER -> s

\* bcrypt.hash: a "$2..." credential, which is not the plaintext and of which
\* only bcrypt.compare can tell the plaintext it was made from
BcryptHash(plain) == [hashed |-> TRUE, of |-> plain]

\* a variant of bcrypt.compare that accepts every candidate
BcryptCompareAny(plain, credential) == TRUE

\* bcrypt.compare
BcryptCompare(plain, credential) == credential.hashed /\ credential.of = plain

\* storeDetails of a document that has none
NoStore ==
  [present |-> FALSE, storeName |-> "", description |-> "", address |-> "",
   phone |-> "", active |-> FALSE]

(* ------------------------------------------------------------------ *)
(* State                                                               *)
(* ------------------------------------------------------------------ *)

VARIABLES
  users,    \* the users collection: _id -> document
  nextId,   \* the next _id the database hands out
  tokens,   \* every token handed to a client so far
  log,      \* the SystemLog collection: how many entries, and the newest
  pending,  \* the requests in flight between two awaits of their handler
  db        \* connectDB of the server process: where it stands

vars == <<users, nextId, tokens, log, pending, db>>

(* ------------------------------------------------------------------ *)
(* The User model: schema, hooks, save                                 *)
(* ------------------------------------------------------------------ *)

\* the schema defaults of permissions: every flag false
DefaultPermissions == {}

\* the switch of the pre-save hook: the permissions (the set of the flags
\* that are true) the hook writes for a role
DerivePermissions(role) ==
  CASE role = "vendor" -> {"manageProducts", "manageOrders", "viewAnalytics"}
    [] role = "admin" ->
         {"manageUsers", "manageProducts", "manageOrders", "manageSettings",
          "viewAnalytics"}
    [] role = "superadmin" -> PermissionNames
    [] OTHER -> {}

\* doc.isModified(path): a new document has every path it was constructed
\* with modified; a loaded one the paths whose value differs from the stored
IsModified(old, doc, isNew, path) == isNew \/ old[path] # doc[path]

\* userSchema.methods.validateStoreDetails: TRUE when it does not throw
ValidateStoreDetails(doc) ==
  doc.role = "vendor" =>
    /\ doc.storeDetails.present
    /\ \A f \in {"storeName", "description", "address", "phone"} :
         Trim(doc.storeDetails[f]) # ""

\* userSchema.pre('validate'): TRUE when the hook passes
PreValidate(old, doc, isNew) ==
  (doc.role = "vendor" /\ (isNew \/ IsModified(old, doc, isNew, "role")
                                 \/ IsModified(old, doc, isNew, "storeDetails")))
    => ValidateStoreDetails(doc)

\* the validators of userSchema, which save() runs on the whole document
SchemaValid(doc) ==
  /\ doc.name # ""
  /\ doc.email # ""
  /\ doc.password.hashed \/ Len(doc.password.of) >= 8
  /\ doc.role \in Roles
  /\ doc.status \in Statuses
  /\ doc.role = "vendor" => doc.storeDetails.present
  /\ doc.storeDetails.present =>
       \A f \in {"storeName", "description", "address", "phone"} :
         doc.storeDetails[f] # ""
  /\ \A i \in 1..Len(doc.statusHistory) : doc.statusHistory[i].status \in Statuses

\* an entry of statusHistory; its timestamp is the ordinal of the entry among
\* the entries the account has received (new Date() never runs backwards)
HistoryEntry(doc, status, reason, updatedBy) ==
  [status |-> status, reason |-> reason, updatedBy |-> updatedBy,
   timestamp |-> Len(doc.statusHistory) + 1]

\* Array.prototype.unshift
Unshift(seq, e) == <<e>> \o seq

\* userSchema.pre('save'): the document the hook leaves. The hook returns at
\* once under $skipMiddleware, and also when the password is modified and is
\* a bcrypt hash already; the throw of its vendor case cannot happen after
\* the pre-validate hook has passed
PreSave(old, doc, isNew, skipMiddleware) ==
  IF skipMiddleware THEN doc
  ELSE IF IsModified(old, doc, isNew, "password") /\ doc.password.hashed THEN doc
  ELSE
    LET d1 == IF IsModified(old, doc, isNew, "password") /\ ~doc.password.hashed
              THEN [doc EXCEPT !.password = BcryptHash(doc.password.of)]
              ELSE doc
        d2 == IF IsModified(old, doc, isNew, "role") \/ (d1.role = "vendor" /\ isNew)
              THEN [d1 EXCEPT !.permissions = DerivePermissions(d1.role)]
              ELSE d1
        d3 == IF IsModified(old, doc, isNew, "status")
              THEN [d2 EXCEPT !.statusHistory =
                      Unshift(d2.statusHistory,
                              HistoryEntry(d2, d2.status, Undefined, NoId))]
              ELSE d2
    IN d3

\* a variant of the collection without its unique index on email
EmailNeverTaken(coll, id, email) == FALSE

\* does another document of the collection hold this e-mail (the unique index)
EmailTaken(coll, id, email) ==
  \E j \in DOMAIN coll : j # id /\ coll[j].email = email

\* a variant of save() that runs neither the pre-validate hook nor the
\* validators of the schema
SaveUnvalidated(coll, id, doc, isNew, skipMiddleware) ==
  IF EmailTaken(coll, id, doc.email)
  THEN [ok |-> FALSE, code |-> "11000", doc |-> doc]
  ELSE [ok |-> TRUE, code |-> Undefined,
        doc |-> PreSave(doc, doc, isNew, skipMiddleware)]

\* document.save(): validation, then the pre-save hook, then the write, which
\* the unique index on email can reject with code 11000
Save(coll, id, doc, isNew, skipMiddleware) ==
  LET old == IF isNew THEN doc ELSE coll[id] IN
  IF ~PreValidate(old, doc, isNew) \/ ~SchemaValid(doc)
  THEN [ok |-> FALSE, code |-> "ValidationError", doc |-> doc]
  ELSE IF EmailTaken(coll, id, doc.email)
  THEN [ok |-> FALSE, code |-> "11000", doc |-> doc]
  ELSE [ok |-> TRUE, code |-> Undefined,
        doc |-> PreSave(old, doc, isNew, skipMiddleware)]

\* the collection after a successful save
Put(coll, id, doc) == [j \in DOMAIN coll \cup {id} |-> IF j = id THEN doc ELSE coll[j]]

\* User.findOne({ email })
FindByEmail(coll, email) == {j \in DOMAIN coll : coll[j].email = email}

\* the superadmin document the seeding script constructs before it saves it
SeedDocument ==
  [name |-> "Super Admin", email |-> SeedEmail,
   password |-> BcryptHash(SeedPassword), role |-> "superadmin",
   storeDetails |-> NoStore, permissions |-> DefaultPermissions,
   status |-> "active",
   statusHistory |->
     <<[status |-> "active", reason |-> "Initial superadmin account creation",
        updatedBy |-> NoId, timestamp |-> 1]>>,
   lastLogin |-> 0]

(* ------------------------------------------------------------------ *)
(* Tokens and the middleware                                           *)
(* ------------------------------------------------------------------ *)

\* generateTokens: the access token carries userId, email and role, the
\* refresh token userId alone; both are signed with JWT_SECRET
GenerateTokens(userId, email, role) ==
  {[kind |-> "access", userId |-> userId, email |-> email, role |-> role],
   [kind |-> "refresh", userId |-> userId, email |-> Undefined, role |-> Undefined]}

\* a request without an Authorization header
NoToken == [kind |-> "none", userId |-> NoId, email |-> Undefined, role |-> Undefined]

\* a token that JWT_SECRET did not sign
ForgedToken(userId) ==
  [kind |-> "forged", userId |-> userId, email |-> Undefined, role |-> "superadmin"]

\* jwt.verify(token, JWT_SECRET): TRUE when it returns the payload
JwtVerify(tok) == tok.kind \in {"access", "refresh"}

\* jwt.verify throws a TokenExpiredError: the signature of the token is
\* good and its exp has passed
TokenExpired(tok) == tok.kind = "expired"

\* req.user before any middleware has run
NoReqUser == [id |-> NoId, email |-> Undefined, role |-> Undefined]

\* a variant of the auth middleware that answers every error of jwt.verify alike
AuthOneError(coll, tok) ==
  IF tok = NoToken
  THEN [code |-> 401, msg |-> "No token, authorization denied",
        needsRefresh |-> FALSE, user |-> NoReqUser]
  ELSE IF ~JwtVerify(tok)
  THEN [code |-> 401, msg |-> "Token is not valid",
        needsRefresh |-> FALSE, user |-> NoReqUser]
  ELSE IF tok.userId \notin DOMAIN coll
  THEN [code |-> 401, msg |-> "Token is not valid - user not found",
        needsRefresh |-> FALSE, user |-> NoReqUser]
  ELSE [code |-> 0, msg |-> "next", needsRefresh |-> FALSE,
        user |-> [id |-> tok.userId, email |-> coll[tok.userId].email,
                  role |-> coll[tok.userId].role]]


\* a variant of the auth middleware that attaches the role claim of the token
AuthTrustingClaims(coll, tok) ==
  IF tok = NoToken
  THEN [code |-> 401, msg |-> "No token, authorization denied",
        needsRefresh |-> FALSE, user |-> NoReqUser]
  ELSE IF ~JwtVerify(tok)
  THEN [code |-> 401, msg |-> "Token is not valid",
        needsRefresh |-> FALSE, user |-> NoReqUser]
  ELSE [code |-> 0, msg |-> "next", needsRefresh |-> FALSE,
        user |-> [id |-> tok.userId, email |-> tok.email, role |-> tok.role]]

\* the auth middleware: the response it sends (code 0: it called next()) and
\* the req.user it attaches
Auth(coll, tok) ==
  IF tok = NoToken
  THEN [code |-> 401, msg |-> "No token, authorization denied",
        needsRefresh |-> FALSE, user |-> NoReqUser]
  ELSE IF TokenExpired(tok)
  THEN [code |-> 401, msg |-> "Token has expired",
        needsRefresh |-> TRUE, user |-> NoReqUser]
  ELSE IF ~JwtVerify(tok)
  THEN [code |-> 401, msg |-> "Token is not valid",
        needsRefresh |-> FALSE, user |-> NoReqUser]
  ELSE IF tok.userId \notin DOMAIN coll
  THEN [code |-> 401, msg |-> "Token is not valid - user not found",
        needsRefresh |-> FALSE, user |-> NoReqUser]
  ELSE [code |-> 0, msg |-> "next", needsRefresh |-> FALSE,
        user |-> [id |-> tok.userId, email |-> coll[tok.userId].email,
                  role |-> coll[tok.userId].role]]

\* an id-valued property of req.user, undefined when req.user has no such property
IdProp(obj, field) == IF field \in DOMAIN obj THEN obj[field] ELSE NoId

\* requireAdmin of middleware/auth.js, after auth: the response (code 0: next())
RequireAdmin(coll, reqUser) ==
  IF reqUser = NoReqUser
  THEN [code |-> 401, msg |-> "Authentication required"]
  ELSE IF reqUser.id \notin DOMAIN coll
  THEN [code |-> 401, msg |-> "User not found"]
  ELSE IF coll[reqUser.id].role \notin {"admin", "superadmin"}
  THEN [code |-> 403, msg |-> "Access denied. Admin privileges required."]
  ELSE [code |-> 0, msg |-> "next"]

\* router.use(auth); router.use(requireAdmin) of routes/admin.js
AdminGate(coll, tok) ==
  LET a == Auth(coll, tok) IN
  IF a.code # 0 THEN [code |-> a.code, msg |-> a.msg, user |-> a.user]
  ELSE LET r == RequireAdmin(coll, a.user) IN
       [code |-> r.code, msg |-> r.msg, user |-> a.user]

\* requirePermission(permission) of models/SystemSettings.js, after auth
RequirePermission(reqUser, permission) ==
  IF reqUser = NoReqUser
  THEN [code |-> 401, msg |-> "Authentication required", missingPermission |-> Undefined]
  ELSE IF reqUser.role = "superadmin"
          \/ ("permissions" \in DOMAIN reqUser /\ permission \in reqUser.permissions)
  THEN [code |-> 0, msg |-> "next", missingPermission |-> Undefined]
  ELSE [code |-> 403, msg |-> "Required permission", missingPermission |-> permission]

\* requireVendor of the vendor routes, after auth
RequireVendor(reqUser) ==
  IF reqUser.role # "vendor"
  THEN [code |-> 403, msg |-> "Access denied. Vendor privileges required."]
  ELSE [code |-> 0, msg |-> "next"]

(* ------------------------------------------------------------------ *)
(* Requests                                                            *)
(* ------------------------------------------------------------------ *)

\* the SystemLog collection is append-only and no handler of the model reads
\* it: the model keeps the number of its entries and the newest of them
EmptyLog ==
  [count |-> 0,
   newest |-> [level |-> "none", action |-> "none", user |-> NoId,
               details |-> Undefined]]

\* SystemLog.create: the collection with the entry appended
LogCreate(entries, level, action, user, details) ==
  [count |-> entries.count + 1,
   newest |-> [level |-> level, action |-> action, user |-> user,
               details |-> details]]

\* the response to a request that failed: status code and message
Failure(op, code, msg) ==
  [op |-> op, code |-> code, msg |-> msg, actor |-> NoId, target |-> NoId,
   req |-> Undefined]

\* the response to a request that succeeded, with the req.user.id it ran for,
\* the account it was about and the body of the request
Success(op, code, actor, target, req) ==
  [op |-> op, code |-> code, msg |-> "ok", actor |-> actor, target |-> target,
   req |-> req]

\* what a handler leaves: its response and the collections after it
Result(resp, coll, next, toks, entries) ==
  [resp |-> resp, users |-> coll, nextId |-> next, tokens |-> toks, log |-> entries]

\* a handler that responds without a write
Respond(resp) == Result(resp, users, nextId, tokens, log)

\* the state stays within the bounds of the model
WithinBounds(r) ==
  /\ r.nextId <= MaxUsers + 1
  /\ r.log.count <= MaxLog
  /\ \A j \in DOMAIN r.users : Len(r.users[j].statusHistory) <= MaxHist

\* the state after a handler has run and has sent its response r.resp
Handled(r) ==
  /\ WithinBounds(r)
  /\ users' = r.users
  /\ nextId' = r.nextId
  /\ tokens' = r.tokens
  /\ log' = r.log
  /\ UNCHANGED <<pending, db>>

\* ---- POST /auth/register

RegisterEmails == {"acme@x.com", "Acme@X.com"}

RegisterPasswords == {"secret1"}

RegisterRoles == {"user", "vendor", "superadmin"}

AcmeStore ==
  [present |-> TRUE, storeName |-> "Acme", description |-> "Pharmacy",
   address |-> "1 Main St", phone |-> "555", active |-> FALSE]

\* the store details of a request: none, complete, a store name of one blank
RegisterStores == {NoStore, AcmeStore, [AcmeStore EXCEPT !.storeName = " "]}

\* storeDetailsSchema of routes/auth.js
StoreDetailsSchemaOk(store) ==
  \A f \in {"storeName", "description", "address", "phone"} : Len(store[f]) >= 1

\* registerSchema.parse: TRUE when it does not throw a ZodError
RegisterSchemaOk(name, email, password, role, store) ==
  /\ Len(name) >= 2
  /\ IsEmail(email)
  /\ Len(password) >= 6
  /\ role \in {"user", "vendor"}
  /\ store.present => StoreDetailsSchemaOk(store)
  /\ role = "vendor" => store.present

\* userData of the register route, as new User(userData) completes it with
\* the schema defaults
RegisterDocument(name, email, password, role, store) ==
  [name |-> name, email |-> ToLower(email), password |-> BcryptHash(password),
   role |-> role,
   storeDetails |->
     IF role = "vendor" /\ store.present
     THEN [present |-> TRUE, storeName |-> Trim(store.storeName),
           description |-> Trim(store.description),
           address |-> Trim(store.address), phone |-> Trim(store.phone),
           active |-> FALSE]
     ELSE NoStore,
   permissions |-> DefaultPermissions,
   status |-> IF role = "vendor" THEN "pending" ELSE "active",
   statusHistory |-> <<>>,
   lastLogin |-> 0]

\* user.$skipMiddleware = true of the register route
RegisterSkipMiddleware == TRUE

\* a variant of the catch block that answers every error of save() alike
RegisterErrorGeneric(code) ==
  Failure("register", 500, "Registration failed. Please try again.")

\* the catch block of the register handler, for an error thrown by save()
RegisterError(code) ==
  IF code = "11000"
  THEN Failure("register", 409, "Email already exists")
  ELSE Failure("register", 500, "Registration failed. Please try again.")

\* the register handler
RegisterResult(name, email, password, role, store) ==
  LET doc == RegisterDocument(name, email, password, role, store)
      saved == Save(users, nextId, doc, TRUE, RegisterSkipMiddleware)
  IN
  IF ~RegisterSchemaOk(name, email, password, role, store)
  THEN Respond(Failure("register", 400, "Validation failed"))
  ELSE IF FindByEmail(users, ToLower(email)) # {}
  THEN Respond(Failure("register", 409, "Email already exists"))
  ELSE IF ~saved.ok
  THEN Respond(RegisterError(saved.code))
  ELSE Result(Success("register", 201, NoId, nextId,
                      [email |-> email, role |-> role, store |-> store]),
              Put(users, nextId, saved.doc),
              nextId + 1,
              tokens \cup GenerateTokens(nextId, saved.doc.email, saved.doc.role),
              LogCreate(log, "info", "register", nextId, Undefined))

Register(name, email, password, role, store) ==
  Handled(RegisterResult(name, email, password, role, store))

\* ---- POST /auth/login

LoginEmails == {SeedEmail, "Acme@X.com", "bob@x.com"}

\* the password of the seeded account and the password of the registered ones:
\* each is a wrong password for the other accounts
LoginPasswords == {SeedPassword, "secret1"}

LoginRoles == {Undefined, "vendor", "admin"}

\* a variant of the role check that asks for the exact role in every case
LoginRoleExact(role, user) ==
  IF role = Undefined THEN TRUE ELSE user.role = role

\* the role check of the login route: TRUE when the requested role is accepted
LoginRoleAccepted(role, user) ==
  IF role = Undefined THEN TRUE
  ELSE IF role = "admin" THEN user.role \in {"admin", "superadmin"}
  ELSE user.role = role

\* a variant of the vendor checks that leaves out the store flag
VendorGateStatusOnly(user) ==
  IF user.role = "vendor" /\ user.status # "active"
  THEN [code |-> 403, msg |-> "Your vendor account is pending approval"]
  ELSE [code |-> 0, msg |-> "next"]

\* the vendor checks of the login route: the response they send (code 0: none)
VendorGate(user) ==
  IF user.role = "vendor" /\ user.status # "active"
  THEN [code |-> 403, msg |-> "Your vendor account is pending approval"]
  ELSE IF user.role = "vendor" /\ ~(user.storeDetails.present /\ user.storeDetails.active)
  THEN [code |-> 403, msg |-> "Your store is not yet activated"]
  ELSE [code |-> 0, msg |-> "next"]

\* the login handler
LoginResult(email, password, role) ==
  LET found == FindByEmail(users, ToLower(email))
      id == CHOOSE j \in found : TRUE
      user == users[id]
      gate == VendorGate(user)
      saved == Save(users, id, [user EXCEPT !.lastLogin = @ + 1], FALSE, FALSE)
  IN
  IF found = {}
  THEN Respond(Failure("login", 400, "Account not found with this email"))
  ELSE IF ~LoginRoleAccepted(role, user)
  THEN Respond(Failure("login", 403,
                       IF role = "admin"
                       THEN "Access denied. Admin credentials required."
                       ELSE "Invalid credentials for role login"))
  ELSE IF ~BcryptCompare(password, user.password)
  THEN Result(Failure("login", 400, "Invalid password"), users, nextId, tokens,
              LogCreate(log, "warning", "LOGIN_FAILED", NoId,
                        [email |-> email, role |-> role]))
  ELSE IF gate.code # 0
  THEN Respond(Failure("login", gate.code, gate.msg))
  ELSE IF ~saved.ok
  THEN Respond(Failure("login", 500, "Error logging in user"))
  ELSE Result(Success("login", 200, NoId, id,
                      [email |-> email, password |-> password, role |-> role]),
              Put(users, id, saved.doc),
              nextId,
              tokens \cup GenerateTokens(id, user.email, user.role),
              LogCreate(log, "info", "LOGIN_SUCCESS", id, Undefined))

Login(email, password, role) == Handled(LoginResult(email, password, role))

\* ---- PUT /admin/users/:userId

\* the reason of a request: a suspension states one, the other requests none
UpdateReason(status) == IF status = "suspended" THEN "policy" ELSE Undefined

\* a variant of the route that sets the status and leaves the store as it is
UpdateDocumentStoreUntouched(user, reqUser, status, role, reason) ==
  LET d1 == IF status # Undefined THEN [user EXCEPT !.status = status] ELSE user
      d3 == IF status # Undefined
            THEN [d1 EXCEPT !.statusHistory =
                    Unshift(@, HistoryEntry(d1, status, reason, IdProp(reqUser, "_id")))]
            ELSE d1
  IN IF role # Undefined THEN [d3 EXCEPT !.role = role] ELSE d3

\* the document the route hands to save(): userToUpdate after the route has
\* set status, store activation, history entry and role
UpdateDocument(user, reqUser, status, role, reason) ==
  LET d1 == IF status # Undefined THEN [user EXCEPT !.status = status] ELSE user
      d2 == IF status = "active" /\ d1.role = "vendor"
            THEN [d1 EXCEPT !.storeDetails =
                    [(IF @.present THEN @ ELSE [NoStore EXCEPT !.present = TRUE])
                       EXCEPT !.active = TRUE]]
            ELSE d1
      d3 == IF status # Undefined
            THEN [d2 EXCEPT !.statusHistory =
                    Unshift(@, HistoryEntry(d2, status, reason, IdProp(reqUser, "_id")))]
            ELSE d2
  IN IF role # Undefined THEN [d3 EXCEPT !.role = role] ELSE d3

\* a variant of the route without its two superadmin checks
UpdateNeverForbidden(user, reqUser, role) == [code |-> 0, msg |-> "next"]

\* the two superadmin checks of the route: the response they send (code 0: none)
UpdateForbidden(user, reqUser, role) ==
  IF user.role = "superadmin" /\ reqUser.role # "superadmin"
  THEN [code |-> 403, msg |-> "Cannot modify superadmin users"]
  ELSE IF role = "superadmin" /\ reqUser.role # "superadmin"
  THEN [code |-> 403, msg |-> "Only superadmins can promote to superadmin"]
  ELSE [code |-> 0, msg |-> "next"]

\* the handler of the route, behind the gate of the admin router
UpdateAccountResult(tok, target, status, role, reason) ==
  LET gate == AdminGate(users, tok)
      reqUser == gate.user
      user == users[target]
      forbidden == UpdateForbidden(user, reqUser, role)
      saved == Save(users, target,
                    UpdateDocument(user, reqUser, status, role, reason), FALSE, FALSE)
  IN
  IF gate.code # 0
  THEN Respond(Failure("updateAccount", gate.code, gate.msg))
  ELSE IF target \notin DOMAIN users
  THEN Respond(Failure("updateAccount", 404, "User not found"))
  ELSE IF forbidden.code # 0
  THEN Respond(Failure("updateAccount", forbidden.code, forbidden.msg))
  ELSE IF ~saved.ok
  THEN Respond(Failure("updateAccount", 500, "Error updating user"))
  ELSE Result(Success("updateAccount", 200, reqUser.id, target,
                      [status |-> status, role |-> role, reason |-> reason]),
              Put(users, target, saved.doc),
              nextId,
              tokens,
              LogCreate(log, "info", "USER_UPDATE", IdProp(reqUser, "_id"),
                        [updatedUser |-> target, status |-> status,
                         role |-> role, reason |-> reason]))

UpdateAccount(tok, target, status, role, reason) ==
  Handled(UpdateAccountResult(tok, target, status, role, reason))

\* ---- PUT /admin/promote/:userId

PromoteRoles == {"admin", "superadmin", "user"}

\* `Role changed to ${role}`
RoleChanged(role) ==
  CASE role = "admin" -> "Role changed to admin"
    [] role = "superadmin" -> "Role changed to superadmin"
    [] OTHER -> "Role changed"

\* the checks of the route before it sets the role: the response they send
\* (code 0: none)
PromoteCheck(reqUser, role) ==
  IF role \notin {"admin", "superadmin"}
  THEN [code |-> 400, msg |-> "Invalid role specified"]
  ELSE [code |-> 0, msg |-> "next"]

\* the handler of the route, behind the gate of the admin router
PromoteResult(tok, target, role) ==
  LET gate == AdminGate(users, tok)
      reqUser == gate.user
      user == users[target]
      check == PromoteCheck(reqUser, role)
      saved == Save(users, target, [user EXCEPT !.role = role], FALSE, FALSE)
      pushed == [saved.doc EXCEPT !.statusHistory =
                   Append(@, HistoryEntry(saved.doc, RoleChanged(role), "Promoted",
                                          IdProp(reqUser, "_id")))]
  IN
  IF gate.code # 0
  THEN Respond(Failure("promote", gate.code, gate.msg))
  ELSE IF target \notin DOMAIN users
  THEN Respond(Failure("promote", 404, "User not found"))
  ELSE IF check.code # 0
  THEN Respond(Failure("promote", check.code, check.msg))
  ELSE IF ~saved.ok
  THEN Respond(Failure("promote", 500, "Error promoting user"))
  ELSE Result(Success("promote", 200, reqUser.id, target, [role |-> role]),
              Put(users, target, pushed), nextId, tokens, log)

Promote(tok, target, role) == Handled(PromoteResult(tok, target, role))

\* ---- PUT /admin/users/:userId/permissions

\* the permissions of a request: one flag granted and one withdrawn
PermissionPayloads ==
  {[managePermissions |-> TRUE, manageUsers |-> FALSE]}

\* { ...user.permissions, ...req.body.permissions }, as the schema keeps it
MergePermissions(permissions, payload) ==
  (permissions \ {p \in DOMAIN payload : ~payload[p]})
    \cup {p \in DOMAIN payload \cap PermissionNames : payload[p]}

\* the checks of the route on the requester: the response they send (code 0:
\* none; the route has no check of its own)
PermissionsCheck(reqUser) == [code |-> 0, msg |-> "next"]

\* the audit entries the route appends
PermissionsLog(entries, reqUser, target, payload) == entries

\* the handler of the route, behind the gate of the admin router
UpdatePermissionsResult(tok, target, payload) ==
  LET gate == AdminGate(users, tok)
      reqUser == gate.user
      user == users[target]
      check == PermissionsCheck(reqUser)
      saved == Save(users, target,
                    [user EXCEPT !.permissions = MergePermissions(@, payload)],
                    FALSE, FALSE)
  IN
  IF gate.code # 0
  THEN Respond(Failure("updatePermissions", gate.code, gate.msg))
  ELSE IF target \notin DOMAIN users
  THEN Respond(Failure("updatePermissions", 404, "User not found"))
  ELSE IF check.code # 0
  THEN Respond(Failure("updatePermissions", check.code, check.msg))
  ELSE IF ~saved.ok
  THEN Respond(Failure("updatePermissions", 500, "Error updating user permissions"))
  ELSE Result(Success("updatePermissions", 200, reqUser.id, target,
                      [permissions |-> payload]),
              Put(users, target, saved.doc), nextId, tokens,
              PermissionsLog(log, reqUser, target, payload))

UpdatePermissions(tok, target, payload) ==
  Handled(UpdatePermissionsResult(tok, target, payload))

\* ---- DELETE /auth/users/:userId

\* a variant of the checks of the route that does not look at the target's role
DeleteDecisionAnyTarget(coll, reqUser, target) ==
  IF reqUser.role # "superadmin"
  THEN [code |-> 403, msg |-> "Only superadmins can delete users"]
  ELSE IF target \notin DOMAIN coll
  THEN [code |-> 404, msg |-> "User not found"]
  ELSE [code |-> 0, msg |-> "next"]

\* the checks of the route, after auth: the response they send (code 0: the
\* route goes on to delete)
DeleteDecision(coll, reqUser, target) ==
  IF reqUser.role # "superadmin"
  THEN [code |-> 403, msg |-> "Only superadmins can delete users"]
  ELSE IF target \notin DOMAIN coll
  THEN [code |-> 404, msg |-> "User not found"]
  ELSE IF coll[target].role = "superadmin"
  THEN [code |-> 403, msg |-> "Superadmin users cannot be deleted"]
  ELSE [code |-> 0, msg |-> "next"]

\* User.findByIdAndDelete
Delete(coll, id) == [j \in DOMAIN coll \ {id} |-> coll[j]]

\* the handler of the route, behind auth
DeleteAccountResult(tok, target) ==
  LET a == Auth(users, tok)
      reqUser == a.user
      decision == DeleteDecision(users, reqUser, target)
  IN
  IF a.code # 0
  THEN Respond(Failure("deleteAccount", a.code, a.msg))
  ELSE IF decision.code # 0
  THEN Respond(Failure("deleteAccount", decision.code, decision.msg))
  ELSE Result(Success("deleteAccount", 200, reqUser.id, target, Undefined),
              Delete(users, target), nextId, tokens,
              LogCreate(log, "warning", "USER_DELETED", reqUser.id,
                        [deletedUserId |-> target,
                         deletedUserEmail |-> users[target].email]))

DeleteAccount(tok, target) == Handled(DeleteAccountResult(tok, target))

\* ---- PUT /auth/profile

\* a request body without fields
NoProfileBody ==
  [name |-> Undefined, email |-> Undefined, currentPassword |-> Undefined,
   newPassword |-> Undefined, status |-> Undefined, statusReason |-> Undefined]

\* updateProfileSchema.parse: TRUE when it does not throw a ZodError
UpdateProfileSchemaOk(body) ==
  /\ body.name # Undefined => Len(body.name) >= 2
  /\ body.email # Undefined => IsEmail(body.email)
  /\ body.newPassword # Undefined => Len(body.newPassword) >= 6
  /\ body.status \in {Undefined, "active", "inactive"}

\* the document the route hands to save(): the account after the route has
\* set status (for an admin acting on another account than its own, which
\* this route never is), name and e-mail
ProfileDocument(user, reqUser, body) ==
  LET userId == reqUser.id
      d1 == IF body.status # Undefined /\ reqUser.role = "admin" /\ userId # reqUser.id
            THEN LET d0 == [user EXCEPT !.status = body.status] IN
                 IF body.statusReason # Undefined
                 THEN [d0 EXCEPT !.statusHistory =
                         Unshift(@, HistoryEntry(d0, body.status, body.statusReason, NoId))]
                 ELSE d0
            ELSE user
      d2 == IF body.name # Undefined THEN [d1 EXCEPT !.name = body.name] ELSE d1
  IN IF body.email # Undefined THEN [d2 EXCEPT !.email = ToLower(body.email)] ELSE d2

\* does the request ask for a password change
ChangesPassword(body) ==
  body.currentPassword # Undefined /\ body.newPassword # Undefined

\* the handler of the route, behind auth
UpdateProfileResult(tok, body) ==
  LET a == Auth(users, tok)
      reqUser == a.user
      user == users[reqUser.id]
      doc == ProfileDocument(user, reqUser, body)
      final == IF ChangesPassword(body)
               THEN [doc EXCEPT !.password = BcryptHash(body.newPassword)]
               ELSE doc
      saved == Save(users, reqUser.id, final, FALSE, FALSE)
  IN
  IF a.code # 0
  THEN Respond(Failure("updateProfile", a.code, a.msg))
  ELSE IF ~UpdateProfileSchemaOk(body)
  THEN Respond(Failure("updateProfile", 400, "Validation failed"))
  ELSE IF ChangesPassword(body) /\ ~BcryptCompare(body.currentPassword, user.password)
  THEN Respond(Failure("updateProfile", 400, "Current password is incorrect"))
  ELSE IF ~saved.ok
  THEN Respond(Failure("updateProfile", 500, "Server error during profile update"))
  ELSE Result(Success("updateProfile", 200, reqUser.id, reqUser.id, body),
              Put(users, reqUser.id, saved.doc), nextId, tokens, log)

UpdateProfile(tok, body) == Handled(UpdateProfileResult(tok, body))

\* ---- routes that only pass a gate

\* a route of the admin router that reads nothing of the request and changes
\* nothing (POST /admin/backup): the gate of the router decides the response
AdminRequestResult(tok) ==
  LET gate == AdminGate(users, tok) IN
  IF gate.code # 0
  THEN Respond(Failure("adminRequest", gate.code, gate.msg))
  ELSE Respond(Success("adminRequest", 200, gate.user.id, NoId, [token |-> tok]))

AdminRequest(tok) == Handled(AdminRequestResult(tok))

\* the permissions a route asks for through requirePermission
GatedPermissions == {"manageUsers", "managePermissions"}

\* a route behind auth and requirePermission(permission)
PermissionRequestResult(tok, permission) ==
  LET a == Auth(users, tok)
      r == RequirePermission(a.user, permission)
  IN
  IF a.code # 0
  THEN Respond(Failure("permissionRequest", a.code, a.msg))
  ELSE IF r.code # 0
  THEN Respond([Failure("permissionRequest", r.code, r.msg)
                  EXCEPT !.req = [missingPermission |-> r.missingPermission]])
  ELSE Respond(Success("permissionRequest", 200, a.user.id, NoId,
                       [permission |-> permission]))

PermissionRequest(tok, permission) ==
  Handled(PermissionRequestResult(tok, permission))

\* a route of the vendor router, behind auth and requireVendor
VendorRequestResult(tok) ==
  LET a == Auth(users, tok)
      r == RequireVendor(a.user)
  IN
  IF a.code # 0
  THEN Respond(Failure("vendorRequest", a.code, a.msg))
  ELSE IF r.code # 0
  THEN Respond(Failure("vendorRequest", r.code, r.msg))
  ELSE Respond(Success("vendorRequest", 200, a.user.id, NoId, [token |-> tok]))

VendorRequest(tok) == Handled(VendorRequestResult(tok))

\* ---- the requests the clients send

\* the Authorization headers: a token handed out, none, a forged one
Presented == tokens \cup {NoToken, ForgedToken(1)}

\* the Authorization headers of the requests that write: for each account one
\* of the access tokens handed out for it, or none
Sessions ==
  {CHOOSE t \in tokens : t.kind = "access" /\ t.userId = j :
     j \in {t.userId : t \in tokens}} \cup {NoToken}

\* the bodies of PUT /admin/users/:userId: a status, a role, or both
UpdateBodies ==
  {[status |-> "active", role |-> Undefined],
   [status |-> "suspended", role |-> Undefined],
   [status |-> Undefined, role |-> "user"],
   [status |-> Undefined, role |-> "vendor"],
   [status |-> Undefined, role |-> "admin"],
   [status |-> Undefined, role |-> "superadmin"],
   [status |-> "active", role |-> "vendor"]}

\* the ids a request can name: the accounts ever created and those never created
TargetIds == 1..MaxUsers

(* ------------------------------------------------------------------ *)
(* Specification                                                       *)
(* ------------------------------------------------------------------ *)

\* the database after the seeding script, no request handled yet
\* the process after connectDB() has returned and app.listen has run
ServerUp ==
  [pc |-> "connected", retryCount |-> 0, attempts |-> 1, waits |-> <<>>,
   invocation |-> 1, listening |-> TRUE]

Init ==
  /\ users = Put(<<>>, 1, Save(<<>>, 1, SeedDocument, TRUE, FALSE).doc)
  /\ nextId = 2
  /\ tokens = {}
  /\ log = EmptyLog
  /\ pending = <<>>
  /\ db = ServerUp

Next ==
  \/ \E email \in RegisterEmails, password \in RegisterPasswords,
        role \in RegisterRoles, store \in RegisterStores :
       Register("Acme Pharmacy", email, password, role, store)
  \/ \E email \in LoginEmails, password \in LoginPasswords, role \in LoginRoles :
       Login(email, password, role)
  \/ \E tok \in Sessions, target \in TargetIds, body \in UpdateBodies :
       UpdateAccount(tok, target, body.status, body.role, UpdateReason(body.status))
  \/ \E tok \in Sessions, target \in TargetIds, role \in PromoteRoles :
       Promote(tok, target, role)
  \/ \E tok \in Sessions, target \in TargetIds, payload \in PermissionPayloads :
       UpdatePermissions(tok, target, payload)
  \/ \E tok \in Sessions, target \in TargetIds : DeleteAccount(tok, target)
  \/ \E tok \in Presented : AdminRequest(tok)
  \/ \E tok \in Presented, permission \in GatedPermissions :
       PermissionRequest(tok, permission)

Spec == Init /\ [][Next]_vars

(* ------------------------------------------------------------------ *)
(* Vendor login (C1, C8)                                               *)
(* ------------------------------------------------------------------ *)

\* the login requests of the model that name this account and its password
CorrectLogins(id) ==
  {q \in [email : LoginEmails, password : LoginPasswords, role : LoginRoles] :
     /\ FindByEmail(users, ToLower(q.email)) = {id}
     /\ BcryptCompare(q.password, users[id].password)}

\* what C1 says of the login q to the vendor account id
VendorLoginGated(id, q) ==
  LET r == LoginResult(q.email, q.password, q.role)
      user == users[id]
  IN
  /\ r.resp.code = 200 =>
        user.status = "active" /\ user.storeDetails.active
  /\ r.tokens # tokens =>
        user.status = "active" /\ user.storeDetails.active
  /\ user.status # "active" =>
        /\ r.resp.code = 403
        /\ r.resp.msg = "Your vendor account is pending approval"
  /\ (user.status = "active" /\ ~user.storeDetails.active) =>
        /\ r.resp.code = 403
        /\ r.resp.msg = "Your store is not yet activated"

\* a vendor that registers now is stored pending with an inactive store
FreshVendorPending ==
  \A email \in RegisterEmails, password \in RegisterPasswords,
     store \in RegisterStores :
    LET r == RegisterResult("Acme Pharmacy", email, password, "vendor", store) IN
    r.resp.code = 201 =>
      /\ r.users[nextId].status = "pending"
      /\ ~r.users[nextId].storeDetails.active

\* C1, as stated: for every vendor account and every login with the correct
\* password, whatever role the login expects, tokens are issued only if the
\* status is active and the store is active, a status that is not active fails
\* with 403 VendorPendingApproval, an active status with an inactive store
\* fails with 403 VendorStoreInactive; a fresh vendor is pending, store inactive
C1_AsStated ==
  /\ \A id \in DOMAIN users :
       users[id].role = "vendor" =>
         \A q \in CorrectLogins(id) : VendorLoginGated(id, q)
  /\ FreshVendorPending

\* C1, amended: the same for every login with the correct password that
\* expects no role or expects role vendor (a login that expects another role
\* fails with RoleMismatch before the vendor checks)
C1_VendorLoginGated ==
  /\ \A id \in DOMAIN users :
       users[id].role = "vendor" =>
         \A q \in CorrectLogins(id) :
           q.role \in {Undefined, "vendor"} => VendorLoginGated(id, q)
  /\ FreshVendorPending

\* an active vendor whose store is inactive is refused by the second check
C1_Witness ==
  \E id \in DOMAIN users :
    /\ users[id].role = "vendor"
    /\ users[id].status = "active"
    /\ ~users[id].storeDetails.active
    /\ \E q \in CorrectLogins(id) :
         /\ q.role = "vendor"
         /\ LoginResult(q.email, q.password, q.role).resp.msg
              = "Your store is not yet activated"

(* ------------------------------------------------------------------ *)
(* Permissions and roles (C2, C3, C4, C5, C10)                         *)
(* ------------------------------------------------------------------ *)

\* the table of the specification: the permissions that are true for a role
PermissionTable(role) ==
  CASE role = "user" -> {}
    [] role = "vendor" -> {"manageProducts", "manageOrders", "viewAnalytics"}
    [] role = "admin" ->
         {"manageUsers", "manageProducts", "manageOrders", "manageSettings",
          "viewAnalytics"}
    [] role = "superadmin" -> PermissionNames

\* C2: after any successful registration the stored permission set of the new
\* account equals the table row of its role (nothing true for a customer;
\* manageProducts, manageOrders, viewAnalytics true for a vendor)
C2_RegisteredPermissions ==
  \A email \in RegisterEmails, password \in RegisterPasswords,
     role \in RegisterRoles, store \in RegisterStores :
    LET r == RegisterResult("Acme Pharmacy", email, password, role, store) IN
    r.resp.code = 201 =>
      r.users[nextId].permissions = PermissionTable(r.users[nextId].role)

\* the account a token stands for is a superadmin now
ActorIsSuperadmin(tok) ==
  /\ JwtVerify(tok)
  /\ tok.userId \in DOMAIN users
  /\ users[tok.userId].role = "superadmin"

\* the accounts that are superadmin before are those that are superadmin after
SameSuperadmins(before, after) ==
  /\ \A j \in DOMAIN before \cap DOMAIN after :
       (before[j].role = "superadmin") <=> (after[j].role = "superadmin")
  /\ \A j \in DOMAIN after \ DOMAIN before : after[j].role # "superadmin"

\* C3: no request whose actor's role is not superadmin, through
\* PUT /admin/users/:id, PUT /admin/promote/:id or any other operation, makes
\* a superadmin account another role or another account a superadmin
C3_SuperadminsBySuperadmins ==
  /\ \A tok \in Presented, target \in TargetIds :
       ~ActorIsSuperadmin(tok) =>
         /\ \A body \in UpdateBodies :
              SameSuperadmins(users,
                UpdateAccountResult(tok, target, body.status, body.role,
                                    UpdateReason(body.status)).users)
         /\ \A role \in PromoteRoles :
              SameSuperadmins(users, PromoteResult(tok, target, role).users)
         /\ \A payload \in PermissionPayloads :
              SameSuperadmins(users,
                              UpdatePermissionsResult(tok, target, payload).users)
         /\ SameSuperadmins(users, DeleteAccountResult(tok, target).users)
  /\ \A email \in RegisterEmails, password \in RegisterPasswords,
        role \in RegisterRoles, store \in RegisterStores :
       SameSuperadmins(users,
         RegisterResult("Acme Pharmacy", email, password, role, store).users)
  /\ \A email \in LoginEmails, password \in LoginPasswords, role \in LoginRoles :
       SameSuperadmins(users, LoginResult(email, password, role).users)

\* C4: PUT /admin/users/:id/permissions changes the target's permission set
\* only when the actor's role is superadmin, and then appends an audit entry;
\* for an actor of any other role the permission set is unchanged
C4_OverrideBySuperadminRecorded ==
  \A tok \in Presented, target \in DOMAIN users, payload \in PermissionPayloads :
    LET r == UpdatePermissionsResult(tok, target, payload)
        changed == r.users[target].permissions # users[target].permissions
    IN
    /\ changed => ActorIsSuperadmin(tok) /\ r.log.count = log.count + 1
    /\ ~ActorIsSuperadmin(tok) => ~changed

\* C5: for an identity attached by the auth middleware, requirePermission(p)
\* passes for a superadmin whatever its stored permissions, for every other
\* role exactly when the stored permission p is true, and a refusal is a 403
\* that carries the name of the missing permission
C5_RequirePermission ==
  \A tok \in Presented, p \in PermissionNames :
    LET a == Auth(users, tok)
        r == RequirePermission(a.user, p)
        account == users[a.user.id]
    IN
    a.code = 0 =>
      /\ account.role = "superadmin" => r.code = 0
      /\ account.role # "superadmin" => (r.code = 0 <=> p \in account.permissions)
      /\ r.code # 0 => r.code = 403 /\ r.missingPermission = p

\* C10: after any successful promotion of an account to role admin, through
\* PUT /admin/promote/:id or updateAccount with role admin, whatever its role
\* and permission set were before, its stored permission set is the admin row
C10_PromotedAdminPermissions ==
  \A tok \in Presented, target \in DOMAIN users :
    /\ LET r == PromoteResult(tok, target, "admin") IN
       r.resp.code = 200 => r.users[target].permissions = PermissionTable("admin")
    /\ \A body \in UpdateBodies :
         LET r == UpdateAccountResult(tok, target, body.status, body.role,
                                      UpdateReason(body.status)) IN
         (body.role = "admin" /\ r.resp.code = 200) =>
           r.users[target].permissions = PermissionTable("admin")

(* ------------------------------------------------------------------ *)
(* Status history (C6)                                                 *)
(* ------------------------------------------------------------------ *)

\* C6: an updateAccount with a status different from the stored one adds
\* exactly one entry to the account's status history: the history is longer
\* by one, and the added entry carries the new status
C6_OneHistoryEntry ==
  \A tok \in Presented, target \in DOMAIN users, body \in UpdateBodies :
    LET r == UpdateAccountResult(tok, target, body.status, body.role,
                                 UpdateReason(body.status))
        before == users[target].statusHistory
        after == r.users[target].statusHistory
    IN
    (r.resp.code = 200 /\ body.status # Undefined
       /\ body.status # users[target].status) =>
      /\ Len(after) = Len(before) + 1
      /\ after[1].status = body.status

(* ------------------------------------------------------------------ *)
(* Deletion (C7)                                                       *)
(* ------------------------------------------------------------------ *)

\* C7: deleteAccount removes the target if and only if the actor's role is
\* superadmin, the target exists and the target's role is not superadmin; a
\* superadmin target is a 403 for every actor role, an actor that is not
\* superadmin is a 403, and every failing request leaves the accounts as
\* they were
C7_DeleteBySuperadmin ==
  \A tok \in Presented, target \in TargetIds :
    LET a == Auth(users, tok)
        r == DeleteAccountResult(tok, target)
        removed == target \in DOMAIN users /\ target \notin DOMAIN r.users
    IN
    /\ removed <=> (/\ ActorIsSuperadmin(tok)
                    /\ target \in DOMAIN users
                    /\ users[target].role # "superadmin")
    /\ removed =>
         /\ r.resp.code = 200
         /\ DOMAIN r.users = DOMAIN users \ {target}
         /\ \A j \in DOMAIN r.users : r.users[j] = users[j]
    /\ (a.code = 0 /\ target \in DOMAIN users
          /\ users[target].role = "superadmin") => r.resp.code = 403
    /\ (a.code = 0 /\ ~ActorIsSuperadmin(tok)) => r.resp.code = 403
    /\ r.resp.code # 200 => r.users = users

\* a superadmin has deleted the registered account
C7_Witness ==
  /\ log.newest.action = "USER_DELETED"
  /\ log.newest.level = "warning"
  /\ log.newest.details.deletedUserId \notin DOMAIN users
  /\ \E tok \in tokens : tok.userId = log.newest.user /\ ActorIsSuperadmin(tok)

(* ------------------------------------------------------------------ *)
(* Vendor approval (C8)                                                *)
(* ------------------------------------------------------------------ *)

\* the login with the account's password and role vendor succeeds with tokens
VendorLoginSucceeds(id) ==
  \E q \in CorrectLogins(id) :
    /\ q.role = "vendor"
    /\ LET r == LoginResult(q.email, q.password, q.role) IN
       /\ r.resp.code = 200
       /\ GenerateTokens(id, users[id].email, users[id].role) \subseteq r.tokens

\* this step is a successful updateAccount of account id with status active
ActivatedBy(id) ==
  /\ log'.count = log.count + 1
  /\ log'.newest.action = "USER_UPDATE"
  /\ log'.newest.details.updatedUser = id
  /\ log'.newest.details.status = "active"

\* C8: after a vendor has registered (status pending, store inactive) and an
\* admin calls updateAccount on it with status active, the vendor's store is
\* active and the next login with the correct password and role vendor
\* succeeds and returns tokens
C8_ActivationOpensLogin ==
  [][\A id \in DOMAIN users :
       (/\ users[id].role = "vendor"
        /\ users[id].status = "pending"
        /\ ~users[id].storeDetails.active
        /\ ActivatedBy(id)
        /\ log'.newest.details.role = Undefined) =>
         /\ users'[id].storeDetails.active
         /\ users'[id].status = "active"
         /\ VendorLoginSucceeds(id)']_vars

\* the vendor, activated, has logged in
C8_Witness ==
  \E id \in DOMAIN users :
    /\ users[id].role = "vendor"
    /\ users[id].status = "active"
    /\ users[id].storeDetails.active
    /\ log.newest.action = "LOGIN_SUCCESS"
    /\ log.newest.user = id
    /\ \E tok \in tokens : tok.userId = id /\ tok.role = "vendor"

(* ------------------------------------------------------------------ *)
(* Tokens and the current role (C9)                                    *)
(* ------------------------------------------------------------------ *)

\* C9: for every request with an access token handed out, the identity the
\* auth middleware attaches carries the role stored now, not the role claim:
\* the token of an account that is no admin any more is refused by the admin
\* gate with 403, the token of a deleted account with 401
C9_CurrentRole ==
  \A tok \in tokens :
    tok.kind = "access" =>
      LET a == Auth(users, tok)
          r == AdminRequestResult(tok)
      IN
      /\ tok.userId \in DOMAIN users =>
           /\ a.code = 0
           /\ a.user.id = tok.userId
           /\ a.user.role = users[tok.userId].role
           /\ users[tok.userId].role \notin {"admin", "superadmin"} =>
                r.resp.code = 403
           /\ users[tok.userId].role \in {"admin", "superadmin"} =>
                r.resp.code = 200
      /\ tok.userId \notin DOMAIN users =>
           /\ a.code = 401
           /\ r.resp.code = 401

\* a token issued to an admin whose account is a customer now, and a token
\* of an account that has been deleted
C9_Witness ==
  /\ \E tok \in tokens :
       /\ tok.kind = "access"
       /\ tok.role \in {"admin", "superadmin"}
       /\ tok.userId \in DOMAIN users
       /\ users[tok.userId].role = "user"
       /\ AdminRequestResult(tok).resp.code = 403
  /\ \E tok \in tokens :
       /\ tok.kind = "access"
       /\ tok.userId \notin DOMAIN users
       /\ AdminRequestResult(tok).resp.code = 401

(* ------------------------------------------------------------------ *)
(* Login responses (C11, C19)                                          *)
(* ------------------------------------------------------------------ *)

\* C11: for any login request, the response (status code and message) when
\* no account has the e-mail is the response when the account exists and the
\* password is wrong, so the response does not tell whether an e-mail is
\* registered
C11_UniformLoginFailure ==
  \A unknown \in LoginEmails, known \in LoginEmails,
     password \in LoginPasswords, wrong \in LoginPasswords :
    (/\ FindByEmail(users, ToLower(unknown)) = {}
     /\ \E id \in FindByEmail(users, ToLower(known)) :
          ~BcryptCompare(wrong, users[id].password)) =>
      LET absent == LoginResult(unknown, password, Undefined).resp
          mismatch == LoginResult(known, wrong, Undefined).resp
      IN absent.code = mismatch.code /\ absent.msg = mismatch.msg

(* ------------------------------------------------------------------ *)
(* E-mail addresses (C12)                                              *)
(* ------------------------------------------------------------------ *)

\* the e-mail addresses of registrations, one of them the seeded address in
\* another case
ProfileRegisterEmails == {"acme@x.com", "Acme@X.com", "Admin@PharmaLink.com"}

\* the bodies of PUT /auth/profile: a new e-mail (free, taken, taken in
\* another case), a new name, and a password change under a wrong current
\* password that also carries a name and an e-mail
ProfileBodies ==
  {[NoProfileBody EXCEPT !.email = "bob@x.com"],
   [NoProfileBody EXCEPT !.email = "Acme@X.com"],
   [NoProfileBody EXCEPT !.email = "Admin@PharmaLink.com"],
   [NoProfileBody EXCEPT !.name = "Renamed"],
   [NoProfileBody EXCEPT !.name = "Renamed", !.email = "bob@x.com",
                         !.currentPassword = "wrong-password",
                         !.newPassword = "newsecret"]}

\* registrations, logins, profile updates and deletions
ProfileNext ==
  \/ \E email \in ProfileRegisterEmails, password \in RegisterPasswords,
        role \in RegisterRoles, store \in RegisterStores :
       Register("Acme Pharmacy", email, password, role, store)
  \/ \E email \in LoginEmails \cup {"Admin@PharmaLink.com"},
        password \in LoginPasswords, role \in LoginRoles :
       Login(email, password, role)
  \/ \E tok \in Presented, body \in ProfileBodies : UpdateProfile(tok, body)
  \/ \E tok \in Sessions, target \in TargetIds : DeleteAccount(tok, target)

ProfileSpec == Init /\ [][ProfileNext]_vars

\* C12: in every reachable state no two accounts have e-mails that are equal
\* ignoring case, under any sequence of registrations and profile e-mail
\* updates; a registration whose lowercased e-mail is already stored fails
\* with 409 and creates no account
C12_UniqueEmails ==
  /\ \A i \in DOMAIN users, j \in DOMAIN users :
       i # j => ToLower(users[i].email) # ToLower(users[j].email)
  /\ \A email \in ProfileRegisterEmails, password \in RegisterPasswords,
        role \in {"user", "vendor"}, store \in {AcmeStore} :
       LET r == RegisterResult("Acme Pharmacy", email, password, role, store) IN
       (\E j \in DOMAIN users : ToLower(users[j].email) = ToLower(email)) =>
         /\ r.resp.code = 409
         /\ r.users = users

\* an account has taken a new e-mail through its profile, and both a
\* registration and a profile update that ask for a stored e-mail are refused
C12_Witness ==
  /\ Cardinality(DOMAIN users) = 2
  /\ \E i \in DOMAIN users : users[i].email = "bob@x.com"
  /\ \E email \in ProfileRegisterEmails :
       RegisterResult("Acme Pharmacy", email, "secret1", "user", NoStore).resp.code = 409
  /\ \E tok \in tokens, body \in ProfileBodies :
       /\ body.email # Undefined
       /\ body.currentPassword = Undefined
       /\ ToLower(body.email) # users[tok.userId].email
       /\ UpdateProfileResult(tok, body).resp.code = 500

(* ------------------------------------------------------------------ *)
(* Concurrent registrations (C13)                                      *)
(* ------------------------------------------------------------------ *)

\* registrations handled at the same time
MaxRequests == 2

RaceEmails == {"acme@x.com", "Acme@X.com", "bob@x.com"}

RaceRoles == {"user", "vendor"}

\* the register handler up to its await of User.findOne: the request is
\* answered (400, 409) or goes on to construct and save the document
RegisterBegin(p, email, password, role, store) ==
  /\ p \notin DOMAIN pending
  /\ UNCHANGED db
  /\ LET code == IF ~RegisterSchemaOk("Acme Pharmacy", email, password, role, store)
                 THEN 400
                 ELSE IF FindByEmail(users, ToLower(email)) # {}
                 THEN 409
                 ELSE 0
     IN
     pending' =
       [q \in DOMAIN pending \cup {p} |->
          IF q # p THEN pending[q]
          ELSE [email |-> email, password |-> password, role |-> role,
                store |-> store, passed |-> code = 0, code |-> code]]
  /\ UNCHANGED <<users, nextId, tokens, log>>

\* the register handler from user.save() on, for a request that has passed
\* the findOne check
RegisterFinish(p) ==
  /\ p \in DOMAIN pending
  /\ UNCHANGED db
  /\ pending[p].code = 0
  /\ LET q == pending[p]
         doc == RegisterDocument("Acme Pharmacy", q.email, q.password, q.role, q.store)
         saved == Save(users, nextId, doc, TRUE, RegisterSkipMiddleware)
     IN
     IF ~saved.ok
     THEN /\ pending' = [pending EXCEPT ![p].code = RegisterError(saved.code).code]
          /\ UNCHANGED <<users, nextId, tokens, log>>
     ELSE /\ pending' = [pending EXCEPT ![p].code = 201]
          /\ users' = Put(users, nextId, saved.doc)
          /\ nextId' = nextId + 1
          /\ tokens' = tokens \cup GenerateTokens(nextId, saved.doc.email, saved.doc.role)
          /\ log' = LogCreate(log, "info", "register", nextId, Undefined)

RaceNext ==
  \/ \E p \in 1..MaxRequests, email \in RaceEmails, password \in RegisterPasswords,
        role \in RaceRoles, store \in RegisterStores :
       RegisterBegin(p, email, password, role, store)
  \/ \E p \in 1..MaxRequests : RegisterFinish(p)

RaceSpec == Init /\ [][RaceNext]_vars

\* the document of the request passes the validation of save()
ValidDocument(q) ==
  LET doc == RegisterDocument("Acme Pharmacy", q.email, q.password, q.role, q.store) IN
  PreValidate(doc, doc, TRUE) /\ SchemaValid(doc)

\* two answered requests for one e-mail that both went past the findOne check
RacedFor(p, q) ==
  /\ p \in DOMAIN pending /\ q \in DOMAIN pending /\ p # q
  /\ ToLower(pending[p].email) = ToLower(pending[q].email)
  /\ pending[p].passed /\ pending[q].passed
  /\ pending[p].code # 0 /\ pending[q].code # 0
  /\ ValidDocument(pending[p]) /\ ValidDocument(pending[q])

\* C13: when two registrations for the same e-mail (ignoring case) both pass
\* the existence check before either persists, exactly one account is
\* created: one request gets 201 and the other 409 from the unique index,
\* never a 500 and never a second account
C13_OneWinner ==
  \A p \in 1..MaxRequests, q \in 1..MaxRequests :
    RacedFor(p, q) =>
      /\ pending[p].code \in {201, 409} /\ pending[q].code \in {201, 409}
      /\ Cardinality({r \in DOMAIN pending :
                        /\ ToLower(pending[r].email) = ToLower(pending[p].email)
                        /\ pending[r].code = 201}) = 1
      /\ Cardinality(FindByEmail(users, ToLower(pending[p].email))) = 1

\* two registrations raced for one e-mail, written in two cases, and are answered
C13_Witness ==
  \E p \in 1..MaxRequests, q \in 1..MaxRequests :
    /\ RacedFor(p, q)
    /\ pending[p].email # pending[q].email
    /\ pending[p].code = 409
    /\ Cardinality(DOMAIN users) = 2

(* ------------------------------------------------------------------ *)
(* The actor recorded by updateAccount (C14)                           *)
(* ------------------------------------------------------------------ *)

\* the history entries a request has added: those of the new history that
\* lie before the old ones
AddedEntries(before, after) ==
  {after[i] : i \in 1..(Len(after) - Len(before))}

\* C14: the info audit entry appended by a successful updateAccount names
\* the acting admin (its user reference is the actor's account id), the
\* target account and the requested status, role and reason, and the
\* status-history entries written by the same request carry the same actor id
C14_ActorRecorded ==
  \A tok \in Presented, target \in TargetIds, body \in UpdateBodies :
    LET r == UpdateAccountResult(tok, target, body.status, body.role,
                                 UpdateReason(body.status))
    IN
    r.resp.code = 200 =>
      /\ r.log.count = log.count + 1
      /\ r.log.newest.level = "info"
      /\ r.log.newest.user = r.resp.actor
      /\ r.log.newest.details =
           [updatedUser |-> target, status |-> body.status, role |-> body.role,
            reason |-> UpdateReason(body.status)]
      /\ \A e \in AddedEntries(users[target].statusHistory,
                               r.users[target].statusHistory) :
           e.updatedBy = r.resp.actor

(* ------------------------------------------------------------------ *)
(* The refusals of updateAccount (C15)                                 *)
(* ------------------------------------------------------------------ *)

\* the roles a body of PUT /admin/users/:userId can ask for
RequestedRoles == Roles \cup {Undefined}

\* the statuses a body of PUT /admin/users/:userId can ask for
RequestedStatuses == Statuses \cup {Undefined}

\* the ids a request can name: those ever issued and one never issued
RequestedIds == 1..(MaxUsers + 1)

\* the request leaves every collection as it is
NothingWritten(r) ==
  /\ r.users = users
  /\ r.nextId = nextId
  /\ r.log = log

\* C15: updateAccount answers 404 when the target does not exist, and 403
\* when the actor is not a superadmin and the target's role or the requested
\* role is superadmin; in each of these cases no account is changed and no
\* audit entry is appended
C15_UpdateRefusals ==
  \A tok \in Presented :
    LET gate == AdminGate(users, tok) IN
    gate.code = 0 =>
      \A target \in RequestedIds, status \in RequestedStatuses, role \in RequestedRoles :
        LET r == UpdateAccountResult(tok, target, status, role, UpdateReason(status)) IN
        /\ target \notin DOMAIN users => r.resp.code = 404 /\ NothingWritten(r)
        /\ ( /\ target \in DOMAIN users
             /\ gate.user.role # "superadmin"
             /\ (users[target].role = "superadmin" \/ role = "superadmin") )
           => r.resp.code = 403 /\ NothingWritten(r)

\* an admin that is not a superadmin is signed in next to a superadmin
\* account, and an account id that names no account can be asked for
C15_Witness ==
  /\ \E tok \in Presented :
       /\ AdminGate(users, tok).code = 0
       /\ AdminGate(users, tok).user.role = "admin"
       /\ \E target \in DOMAIN users :
            /\ users[target].role = "superadmin"
            /\ UpdateAccountResult(tok, target, "suspended", Undefined, "policy").resp.code = 403
  /\ \E tok \in Presented, target \in RequestedIds :
       /\ target \notin DOMAIN users
       /\ UpdateAccountResult(tok, target, "active", Undefined, Undefined).resp.code = 404

(* ------------------------------------------------------------------ *)
(* The order of the status history (C16)                               *)
(* ------------------------------------------------------------------ *)

\* the timestamps do not increase from the first entry to the last
NewestFirst(history) ==
  \A i \in 1..Len(history), j \in 1..Len(history) :
    i < j => history[i].timestamp >= history[j].timestamp

\* C16: after any sequence of operations each account's status history is
\* ordered newest-first: every operation that adds an entry adds it at the
\* front, so the timestamps never increase from the first entry to the last
C16_HistoryNewestFirst ==
  \A id \in DOMAIN users : NewestFirst(users[id].statusHistory)

(* ------------------------------------------------------------------ *)
(* Store profiles and roles (C17, C18)                                 *)
(* ------------------------------------------------------------------ *)

\* C17: in every reachable state every account that has a store profile has
\* role vendor: an account whose role is changed away from vendor no longer
\* carries a store profile, and a customer registration stores none even
\* when the request supplies one
C17_StoreOnlyForVendor ==
  /\ \A id \in DOMAIN users :
       users[id].storeDetails.present => users[id].role = "vendor"
  /\ \A email \in RegisterEmails, password \in RegisterPasswords, store \in RegisterStores :
       LET r == RegisterResult("Acme Pharmacy", email, password, "user", store) IN
       r.resp.code = 201 => ~r.users[r.resp.target].storeDetails.present

\* the store profile is there and its four required fields are non-empty
CompleteStore(store) ==
  /\ store.present
  /\ \A f \in {"storeName", "description", "address", "phone"} : Trim(store[f]) # ""

\* C18: in every reachable state every account with role vendor has a store
\* profile with non-empty store name, description, address and phone: a
\* registration as vendor without a complete profile creates no account, and
\* an updateAccount that sets role vendor on an account without a complete
\* store profile fails and leaves the stored role unchanged
C18_VendorHasStore ==
  /\ \A id \in DOMAIN users :
       users[id].role = "vendor" => CompleteStore(users[id].storeDetails)
  /\ \A email \in RegisterEmails, password \in RegisterPasswords, store \in RegisterStores :
       LET r == RegisterResult("Acme Pharmacy", email, password, "vendor", store) IN
       ~CompleteStore(store) =>
         r.resp.code \in {400, 409, 500} /\ r.users = users /\ r.nextId = nextId
  /\ \A tok \in Sessions, target \in DOMAIN users, status \in {Undefined, "active"} :
       LET r == UpdateAccountResult(tok, target, status, "vendor", Undefined) IN
       ~CompleteStore(users[target].storeDetails) =>
         r.resp.code # 200 /\ r.users[target].role = users[target].role

\* a vendor is registered, and a signed-in superadmin asks for role vendor
\* on an account without a store profile and is answered 500
C18_Witness ==
  /\ \E id \in DOMAIN users : users[id].role = "vendor"
  /\ \E tok \in Sessions, target \in DOMAIN users :
       /\ ~users[target].storeDetails.present
       /\ AdminGate(users, tok).code = 0
       /\ UpdateAccountResult(tok, target, Undefined, "vendor", Undefined).resp.code = 500

(* ------------------------------------------------------------------ *)
(* The expected role of a login (C19)                                  *)
(* ------------------------------------------------------------------ *)

\* the two messages of the role check of the login route
RoleMismatchMessages ==
  {"Access denied. Admin credentials required.", "Invalid credentials for role login"}

\* the response is the refusal of the role check
RoleMismatch(resp) == resp.code = 403 /\ resp.msg \in RoleMismatchMessages

\* C19: when a login supplies an expected role, expected role admin is
\* accepted exactly when the account's role is admin or superadmin, and any
\* other expected role exactly when it equals the account's role; a mismatch
\* is answered 403 before the password is checked, so the outcome does not
\* depend on the password, no audit entry is appended, no tokens are issued
\* and last-login is unchanged
C19_ExpectedRole ==
  \A email \in LoginEmails, expected \in Roles :
    LET found == FindByEmail(users, ToLower(email)) IN
    \A id \in found, password \in LoginPasswords :
      LET r == LoginResult(email, password, expected)
          accepted == IF expected = "admin"
                      THEN users[id].role \in {"admin", "superadmin"}
                      ELSE users[id].role = expected
      IN
      /\ accepted <=> ~RoleMismatch(r.resp)
      /\ ~accepted =>
           /\ \A other \in LoginPasswords :
                LoginResult(email, other, expected).resp = r.resp
           /\ r.log = log
           /\ r.tokens = tokens
           /\ r.users = users

\* the superadmin's login with expected role admin is accepted, and a
\* registered account of another role is refused with its correct password
C19_Witness ==
  /\ LoginResult(SeedEmail, SeedPassword, "admin").resp.code = 200
  /\ \E email \in LoginEmails :
       /\ \E id \in FindByEmail(users, ToLower(email)) : users[id].role \in {"user", "vendor"}
       /\ RoleMismatch(LoginResult(email, "secret1", "admin").resp)
       /\ RoleMismatch(LoginResult(email, "secret1", "superadmin").resp)

(* ------------------------------------------------------------------ *)
(* POST /auth/refresh-token (C20)                                      *)
(* ------------------------------------------------------------------ *)

\* a token of this server whose exp has passed: jwt.verify throws
ExpiredToken(tok) == [tok EXCEPT !.kind = "expired"]

\* a variant of the route that signs the new tokens with the claims of the
\* token it was given
RefreshClaimsOfToken(coll, tok) == GenerateTokens(tok.userId, tok.email, tok.role)

\* generateTokens(user._id, user.email, user.role) for the account found
RefreshClaims(coll, tok) ==
  GenerateTokens(tok.userId, coll[tok.userId].email, coll[tok.userId].role)

\* the handler of the route
RefreshResult(tok) ==
  IF tok = NoToken
  THEN Respond(Failure("refresh", 400, "Refresh token required"))
  ELSE IF ~JwtVerify(tok)
  THEN Respond(Failure("refresh", 401, "Invalid refresh token"))
  ELSE IF tok.userId \notin DOMAIN users
  THEN Respond(Failure("refresh", 401, "User not found"))
  ELSE Result([op |-> "refresh", code |-> 200, msg |-> "ok", actor |-> NoId,
               target |-> tok.userId, req |-> tok,
               tokens |-> RefreshClaims(users, tok)],
              users, nextId, tokens \cup RefreshClaims(users, tok), log)

Refresh(tok) == Handled(RefreshResult(tok))

\* the refreshToken of a request body: a token handed out, none, a forged
\* one, or one handed out and expired since
RefreshPresented == Presented \cup {ExpiredToken(t) : t \in tokens}

\* the bodies of PUT /auth/profile that change the e-mail
RefreshProfileBodies ==
  {[NoProfileBody EXCEPT !.email = "bob@x.com"]}

RefreshNext ==
  \/ \E email \in RegisterEmails, password \in RegisterPasswords,
        role \in RegisterRoles, store \in RegisterStores :
       Register("Acme Pharmacy", email, password, role, store)
  \/ \E email \in LoginEmails, password \in LoginPasswords, role \in LoginRoles :
       Login(email, password, role)
  \/ \E tok \in Sessions, target \in TargetIds, body \in UpdateBodies :
       UpdateAccount(tok, target, body.status, body.role, UpdateReason(body.status))
  \/ \E tok \in Sessions, body \in RefreshProfileBodies : UpdateProfile(tok, body)
  \/ \E tok \in Sessions, target \in TargetIds : DeleteAccount(tok, target)
  \/ \E tok \in RefreshPresented : Refresh(tok)

RefreshSpec == Init /\ [][RefreshNext]_vars

\* C20: a refresh with a valid, unexpired refresh token returns new tokens
\* whose email and role claims are the values stored for the account now,
\* not those of the time the refresh token was issued; it is answered 401
\* when the token is invalid or expired or when its account no longer
\* exists, and it never changes an account
C20_RefreshCurrentClaims ==
  \A tok \in RefreshPresented :
    LET r == RefreshResult(tok) IN
    /\ r.users = users
    /\ (tok.kind = "refresh" /\ tok.userId \in DOMAIN users) =>
         /\ r.resp.code = 200
         /\ r.resp.tokens \subseteq r.tokens
         /\ {t.kind : t \in r.resp.tokens} = {"access", "refresh"}
         /\ \A t \in r.resp.tokens :
              /\ t.userId = tok.userId
              /\ t.kind = "access" =>
                   /\ t.email = users[tok.userId].email
                   /\ t.role = users[tok.userId].role
    /\ tok.kind \in {"forged", "expired"} => r.resp.code = 401 /\ r.tokens = tokens
    /\ (tok.kind = "refresh" /\ tok.userId \notin DOMAIN users) =>
         r.resp.code = 401 /\ r.tokens = tokens

\* a refresh token is held for an account whose role has changed since the
\* tokens were handed out and which has refreshed since, and another one for
\* an account that has been deleted
C20_Witness ==
  /\ \E t \in tokens, a \in tokens, b \in tokens :
       /\ t.kind = "refresh" /\ a.kind = "access" /\ b.kind = "access"
       /\ t.userId \in DOMAIN users
       /\ a.userId = t.userId /\ b.userId = t.userId
       /\ a.role # users[t.userId].role
       /\ b.role = users[t.userId].role
       /\ log.newest.action # "LOGIN_SUCCESS"
       /\ RefreshResult(t).resp.code = 200
  /\ \E t \in tokens :
       /\ t.kind = "refresh" /\ t.userId \notin DOMAIN users
       /\ RefreshResult(t).resp.code = 401

(* ------------------------------------------------------------------ *)
(* Tokens and the clock (C21, C25)                                     *)
(* ------------------------------------------------------------------ *)

\* expiresIn: '1h' of the access token, in seconds
AccessLifetime == 3600

\* expiresIn: '7d' of the refresh token, in seconds
RefreshLifetime == 604800

\* exp - iat of a token signed by generateTokens
Lifetime(tok) == IF tok.kind = "access" THEN AccessLifetime ELSE RefreshLifetime

\* the seconds between the signing of a token and the request that carries it
TokenAges == {0, AccessLifetime - 1, AccessLifetime, AccessLifetime + 1, RefreshLifetime}

\* a header that is no JWT at all
MalformedToken ==
  [kind |-> "malformed", userId |-> NoId, email |-> Undefined, role |-> Undefined]

\* what jwt.verify sees of a token `age` seconds after it was signed: the
\* signature is checked first, and a token of this server is expired once
\* the clock has reached its exp
Aged(tok, age) ==
  IF JwtVerify(tok) /\ age >= Lifetime(tok) THEN ExpiredToken(tok) ELSE tok

\* the Authorization headers and refreshToken fields, at every age
SessionPresented ==
  {Aged(t, age) : t \in tokens, age \in TokenAges}
    \cup {NoToken, ForgedToken(1), MalformedToken}

SessionNext ==
  \/ \E email \in RegisterEmails, password \in RegisterPasswords,
        role \in RegisterRoles, store \in RegisterStores :
       Register("Acme Pharmacy", email, password, role, store)
  \/ \E email \in LoginEmails, password \in LoginPasswords, role \in LoginRoles :
       Login(email, password, role)
  \/ \E tok \in SessionPresented : AdminRequest(tok)
  \/ \E tok \in SessionPresented, body \in RefreshProfileBodies : UpdateProfile(tok, body)
  \/ \E tok \in SessionPresented, target \in TargetIds : DeleteAccount(tok, target)
  \/ \E tok \in SessionPresented : Refresh(tok)
  \/ \E tok \in SessionPresented : VendorRequest(tok)

SessionSpec == Init /\ [][SessionNext]_vars

\* the handlers behind the auth middleware answer 401 and write nothing
HandlersRefuse(tok) ==
  /\ \A r \in {AdminRequestResult(tok)}
           \cup {UpdateProfileResult(tok, body) : body \in RefreshProfileBodies}
           \cup {DeleteAccountResult(tok, target) : target \in TargetIds} :
       /\ r.resp.code = 401
       /\ r.users = users /\ r.tokens = tokens /\ r.log = log

\* C21: the auth middleware tells its refusals apart: no bearer token is a
\* 401 with needsRefresh false; a correctly signed access token presented
\* at or after issue time + 1 hour is a 401 "Token has expired" with
\* needsRefresh true, never "Token is not valid"; a token with a bad
\* signature or malformed content is a 401 with needsRefresh false; in none
\* of these cases does the protected handler run
C21_AuthOutcomes ==
  /\ Auth(users, NoToken).code = 401 /\ ~Auth(users, NoToken).needsRefresh
  /\ HandlersRefuse(NoToken)
  /\ \A bad \in {ForgedToken(1), MalformedToken} :
       /\ Auth(users, bad).code = 401 /\ ~Auth(users, bad).needsRefresh
       /\ HandlersRefuse(bad)
  /\ \A t \in tokens, age \in TokenAges :
       (t.kind = "access" /\ age >= AccessLifetime) =>
         LET a == Auth(users, Aged(t, age)) IN
         /\ a.code = 401 /\ a.needsRefresh
         /\ a.msg = "Token has expired"
         /\ HandlersRefuse(Aged(t, age))
  /\ \A t \in tokens, age \in TokenAges :
       (t.kind = "access" /\ age < AccessLifetime /\ t.userId \in DOMAIN users) =>
         Auth(users, Aged(t, age)).code = 0

\* an access token has been handed out for a stored account: it passes the
\* middleware one second before its expiry and is refused as expired at it
C21_Witness ==
  \E t \in tokens :
    /\ t.kind = "access" /\ t.userId \in DOMAIN users
    /\ Auth(users, Aged(t, AccessLifetime - 1)).code = 0
    /\ Auth(users, Aged(t, AccessLifetime)).needsRefresh
    /\ AdminRequestResult(Aged(t, AccessLifetime + 1)).resp.code = 401

(* ------------------------------------------------------------------ *)
(* Profile updates and the password (C22)                              *)
(* ------------------------------------------------------------------ *)

\* the bodies of PUT /auth/profile that ask for a password change, with or
\* without a new name or e-mail
PasswordBodies ==
  {[NoProfileBody EXCEPT !.name = name, !.email = email,
                         !.currentPassword = current, !.newPassword = "newsecret"] :
     name \in {Undefined, "Renamed"}, email \in {Undefined, "bob@x.com"},
     current \in LoginPasswords \cup {"wrong-password"}}

MaxRetries == 5

\* the invocations of connectDB in one life of the process: the initial one
\* and those of the 'disconnected' handler
MaxInvocations == 2

\* Math.pow(2, k)
RECURSIVE Pow2(_)
Pow2(k) == IF k = 0 THEN 1 ELSE 2 * Pow2(k - 1)

\* a variant of the wait without the cap
WaitTimeUncapped(retryCount) == 1000 * Pow2(retryCount)

\* Math.min(1000 * Math.pow(2, retryCount), 10000)
WaitTime(retryCount) ==
  IF 1000 * Pow2(retryCount) < 10000 THEN 1000 * Pow2(retryCount) ELSE 10000

\* connectDB() has just been called
Invoked(invocation, listening) ==
  [pc |-> "connecting", retryCount |-> 0, attempts |-> 0, waits |-> <<>>,
   invocation |-> invocation, listening |-> listening]

\* await mongoose.connect(...) settles: connectDB returns the connection, or
\* the catch block starts the wait before the next call, or ends the process
Connect(ok) ==
  /\ db.pc = "connecting"
  /\ db' = IF ok
           THEN [db EXCEPT !.pc = "connected", !.attempts = @ + 1, !.listening = TRUE]
           ELSE IF db.retryCount < MaxRetries
           THEN [db EXCEPT !.pc = "waiting", !.attempts = @ + 1,
                           !.waits = Append(@, WaitTime(db.retryCount))]
           ELSE [db EXCEPT !.pc = "exited", !.attempts = @ + 1, !.listening = FALSE]
  /\ UNCHANGED <<users, nextId, tokens, log, pending>>

\* the timer of the wait fires: return connectDB(retryCount + 1, maxRetries)
Retry ==
  /\ db.pc = "waiting"
  /\ db' = [db EXCEPT !.pc = "connecting", !.retryCount = @ + 1]
  /\ UNCHANGED <<users, nextId, tokens, log, pending>>

\* mongoose.connection.on('disconnected'): connectDB() is called afresh
Disconnected ==
  /\ db.pc = "connected"
  /\ db.invocation < MaxInvocations
  /\ db' = Invoked(db.invocation + 1, db.listening)
  /\ UNCHANGED <<users, nextId, tokens, log, pending>>

ConnectInit ==
  /\ users = Put(<<>>, 1, Save(<<>>, 1, SeedDocument, TRUE, FALSE).doc)
  /\ nextId = 2
  /\ tokens = {}
  /\ log = EmptyLog
  /\ pending = <<>>
  /\ db = Invoked(1, FALSE)

ConnectNext ==
  \/ \E ok \in BOOLEAN : Connect(ok)
  \/ Retry
  \/ Disconnected
  \/ /\ db.listening
     /\ \E email \in RegisterEmails, password \in RegisterPasswords,
           role \in RegisterRoles, store \in RegisterStores :
          Register("Acme Pharmacy", email, password, role, store)
  \/ /\ db.listening
     /\ \E email \in LoginEmails, password \in LoginPasswords, role \in LoginRoles :
          Login(email, password, role)

\* every await of connectDB settles: mongoose.connect resolves or rejects
\* within its timeouts, and the timer of the wait fires
ConnectFairness ==
  /\ WF_vars(\E ok \in BOOLEAN : Connect(ok))
  /\ WF_vars(Retry)

ConnectSpec == ConnectInit /\ [][ConnectNext]_vars /\ ConnectFairness

\* the waits of the invocation so far are those of the failed attempts 0, 1, ...
WaitsAsComputed ==
  /\ Len(db.waits) <= 5
  /\ \A k \in 0..4 :
       (k + 1) \in DOMAIN db.waits =>
         db.waits[k + 1] = (CASE k = 0 -> 1000 [] k = 1 -> 2000 [] k = 2 -> 4000
                              [] k = 3 -> 8000 [] OTHER -> 10000)

\* what holds of an invocation of connectDB at every moment
ConnectBounded ==
  /\ db.attempts <= 6
  /\ WaitsAsComputed
  /\ db.pc = "exited" => db.attempts = 6 /\ Len(db.waits) = 5
  /\ db.pc = "connected" => db.attempts = Len(db.waits) + 1
  /\ db.pc = "waiting" => db.attempts = Len(db.waits)

\* C23: one invocation of connectDB always terminates: it makes at most 6
\* connection attempts, waits min(1000 * 2^k, 10000) ms after the k-th failed
\* attempt (k = 0..4), ends the process after the sixth failure instead of
\* retrying, and returns as soon as an attempt succeeds
C23_ConnectTerminates ==
  /\ []ConnectBounded
  /\ [][db.pc \in {"connected", "exited"} => db'.pc # "waiting" /\ db'.attempts <= db.attempts]_vars
  /\ (db.pc = "connecting" /\ db.attempts = 0) ~> (db.pc \in {"connected", "exited"})

\* the sixth attempt has failed after the five waits, and the process has ended
C23_Witness ==
  /\ db.pc = "exited"
  /\ db.attempts = 6
  /\ db.waits = <<1000, 2000, 4000, 8000, 10000>>

(* ------------------------------------------------------------------ *)
(* POST /auth/reset-vendor-password (C24)                              *)
(* ------------------------------------------------------------------ *)

\* const newPassword = 'Vendor@123'
ResetPassword == "Vendor@123"

\* User.findOne({ email, role: 'vendor' })
FindVendorByEmail(coll, email) ==
  {j \in FindByEmail(coll, email) : coll[j].role = "vendor"}

\* the handler of the route; no middleware stands before it
ResetVendorPasswordResult(email) ==
  LET found == FindVendorByEmail(users, ToLower(email))
      id == CHOOSE j \in found : TRUE
      saved == Save(users, id, [users[id] EXCEPT !.password = BcryptHash(ResetPassword)],
                    FALSE, FALSE)
  IN
  IF found = {}
  THEN Respond(Failure("resetVendorPassword", 404, "Vendor account not found"))
  ELSE IF ~saved.ok
  THEN Respond(Failure("resetVendorPassword", 500, "Error resetting password"))
  ELSE Result([op |-> "resetVendorPassword", code |-> 200,
               msg |-> "Password has been reset successfully", actor |-> NoId,
               target |-> id, req |-> [email |-> email],
               newPassword |-> ResetPassword],
              Put(users, id, saved.doc), nextId, tokens,
              LogCreate(log, "info", "PASSWORD_RESET", id, Undefined))

ResetVendorPassword(email) == Handled(ResetVendorPasswordResult(email))

ResetNext ==
  \/ \E email \in RegisterEmails, password \in RegisterPasswords,
        role \in RegisterRoles, store \in RegisterStores :
       Register("Acme Pharmacy", email, password, role, store)
  \/ \E email \in LoginEmails, password \in LoginPasswords \cup {ResetPassword, "newsecret"},
        role \in LoginRoles :
       Login(email, password, role)
  \/ \E tok \in Sessions, target \in TargetIds, body \in UpdateBodies :
       UpdateAccount(tok, target, body.status, body.role, UpdateReason(body.status))
  \/ \E tok \in Presented, body \in PasswordBodies : UpdateProfile(tok, body)
  \/ \E email \in LoginEmails : ResetVendorPassword(email)

ResetSpec == Init /\ [][ResetNext]_vars

\* the accounts whose stored credential the request has changed
CredentialChanged(r) ==
  {id \in DOMAIN users \cap DOMAIN r.users : r.users[id].password # users[id].password}

\* the password the response tells, if any
PasswordTold(resp) ==
  IF "newPassword" \in DOMAIN resp THEN resp.newPassword ELSE Undefined

\* C24: an account's stored credential changes only through a request
\* authenticated as that account that supplies the account's correct
\* current password; no unauthenticated request changes the credential of
\* an account or learns a password that verifies against it
C24_CredentialByOwner ==
  /\ \A tok \in Presented, body \in PasswordBodies :
       LET r == UpdateProfileResult(tok, body) IN
       \A id \in CredentialChanged(r) :
         /\ Auth(users, tok).code = 0
         /\ Auth(users, tok).user.id = id
         /\ users[id].password = BcryptHash(body.currentPassword)
  /\ \A email \in LoginEmails, password \in LoginPasswords, role \in LoginRoles :
       CredentialChanged(LoginResult(email, password, role)) = {}
  /\ \A email \in RegisterEmails, password \in RegisterPasswords,
        role \in RegisterRoles, store \in RegisterStores :
       CredentialChanged(RegisterResult("Acme Pharmacy", email, password, role, store)) = {}
  /\ \A email \in LoginEmails :
       LET r == ResetVendorPasswordResult(email) IN
       /\ CredentialChanged(r) = {}
       /\ \A id \in DOMAIN r.users :
            ~BcryptCompare(PasswordTold(r.resp), r.users[id].password)

\* C25: a token is accepted only for the purpose it was issued for: the auth
\* middleware accepts access tokens only, so no token authenticates a
\* protected request later than 1 hour after it was issued, and the refresh
\* route accepts refresh tokens only, so an access token cannot be exchanged
\* for a new pair of tokens
C25_TokenPurpose ==
  \A t \in tokens, age \in TokenAges :
    /\ Auth(users, Aged(t, age)).code = 0 => t.kind = "access" /\ age <= AccessLifetime
    /\ RefreshResult(Aged(t, age)).resp.code = 200 => t.kind = "refresh"

(* ------------------------------------------------------------------ *)
(* Tokens of accounts that may not log in (C26, C27)                   *)
(* ------------------------------------------------------------------ *)

\* C26: a vendor that has never been approved (status pending, store
\* inactive since registration) holds no token that passes the auth
\* middleware and the vendor gate: no vendor-only handler runs on behalf of
\* a vendor whose status is not active
C26_UnapprovedVendorShutOut ==
  \A tok \in SessionPresented :
    LET r == VendorRequestResult(tok) IN
    r.resp.code = 200 => users[r.resp.actor].status = "active"

\* the account may not sign in any more
Barred(id) == users[id].status \in {"suspended", "inactive"}

\* C27: for accounts of every role, once the status of an account is
\* suspended or inactive the account obtains no tokens through login or
\* refresh, and the access tokens it holds no longer pass the auth middleware
C27_BarredAccountShutOut ==
  \A id \in DOMAIN users :
    Barred(id) =>
      /\ \A email \in LoginEmails, password \in LoginPasswords :
           LET r == LoginResult(email, password, Undefined) IN
           ~(r.resp.code = 200 /\ r.resp.target = id)
      /\ \A t \in tokens :
           t.userId = id =>
             /\ t.kind = "refresh" => RefreshResult(t).resp.code # 200
             /\ t.kind = "access" => Auth(users, t).code # 0

(* ------------------------------------------------------------------ *)
(* Activation of the store (C28)                                       *)
(* ------------------------------------------------------------------ *)

\* C28: in every reachable state every account with role vendor and status
\* active has storeDetails.active true, under any sequence of registrations,
\* updateAccount and promote calls, also when a request sets role and status
\* together or an account leaves the vendor role and comes back to it
C28_ActiveVendorStoreActive ==
  \A id \in DOMAIN users :
    (users[id].role = "vendor" /\ users[id].status = "active") =>
      users[id].storeDetails.present /\ users[id].storeDetails.active

(* ------------------------------------------------------------------ *)
(* Deletions next to role changes (C29)                                *)
(* ------------------------------------------------------------------ *)

\* the delete handler up to its await of SystemLog.create: auth, the role
\* of the requester, User.findById and the role of the target
DeleteBegin(p, tok, target) ==
  /\ p \notin DOMAIN pending
  /\ LET r == DeleteAccountResult(tok, target) IN
     pending' =
       IF r.resp.code # 200 THEN pending
       ELSE [q \in DOMAIN pending \cup {p} |->
               IF q # p THEN pending[q]
               ELSE [target |-> target, actor |-> r.resp.actor, code |-> 0,
                     checkedRole |-> users[target].role, removedRole |-> Undefined]]
  /\ UNCHANGED <<users, nextId, tokens, log, db>>

\* the delete handler from SystemLog.create on: the log entry, then
\* User.findByIdAndDelete, which removes the document if it is still there
DeleteFinish(p) ==
  /\ p \in DOMAIN pending
  /\ pending[p].code = 0
  /\ log.count < MaxLog
  /\ LET q == pending[p]
         there == q.target \in DOMAIN users
     IN
     /\ log' = LogCreate(log, "warning", "USER_DELETED", q.actor,
                         [deletedUserId |-> q.target, deletedUserEmail |-> Undefined])
     /\ users' = IF there THEN Delete(users, q.target) ELSE users
     /\ pending' = [pending EXCEPT ![p].code = 200,
                                   ![p].removedRole =
                                      IF there THEN users[q.target].role ELSE Undefined]
  /\ UNCHANGED <<nextId, tokens, db>>

\* the bodies of PUT /admin/users/:userId that change the role only
RoleBodies == {body \in UpdateBodies : body.status = Undefined}

DeleteRaceNext ==
  \/ \E email \in RegisterEmails, password \in RegisterPasswords,
        role \in RegisterRoles, store \in RegisterStores :
       Register("Acme Pharmacy", email, password, role, store)
  \/ \E email \in LoginEmails, password \in LoginPasswords, role \in LoginRoles :
       Login(email, password, role)
  \/ \E tok \in Sessions, target \in TargetIds, role \in PromoteRoles :
       Promote(tok, target, role)
  \/ \E tok \in Sessions, target \in TargetIds, body \in RoleBodies :
       UpdateAccount(tok, target, body.status, body.role, UpdateReason(body.status))
  \/ \E p \in 1..MaxRequests, tok \in Sessions, target \in TargetIds :
       DeleteBegin(p, tok, target)
  \/ \E p \in 1..MaxRequests : DeleteFinish(p)

DeleteRaceSpec == Init /\ [][DeleteRaceNext]_vars

\* C29: the check of deleteAccount that the target is no superadmin and the
\* deletion are atomic with respect to concurrent role changes: in no
\* interleaving with a promote or updateAccount on the same target is an
\* account removed whose stored role is superadmin at the moment of removal
C29_NoSuperadminRemoved ==
  \A p \in DOMAIN pending : pending[p].removedRole # "superadmin"

(* ------------------------------------------------------------------ *)
(* updateAccount when the audit entry cannot be written (C30)          *)
(* ------------------------------------------------------------------ *)

\* the handler of PUT /admin/users/:userId when SystemLog.create may reject
\* (logOk FALSE): the rejection comes after userToUpdate.save() and is
\* answered by the outer catch block
UpdateAccountLoggedResult(tok, target, status, role, reason, logOk) ==
  LET r == UpdateAccountResult(tok, target, status, role, reason) IN
  IF r.resp.code = 200 /\ ~logOk
  THEN Result(Failure("updateAccount", 500, "Error updating user"),
              r.users, r.nextId, r.tokens, log)
  ELSE r

UpdateAccountLogged(tok, target, status, role, reason, logOk) ==
  Handled(UpdateAccountLoggedResult(tok, target, status, role, reason, logOk))

\* the bodies of PUT /admin/users/:userId: a status, or a role
AuditBodies ==
  {[status |-> "suspended", role |-> Undefined],
   [status |-> "active", role |-> Undefined],
   [status |-> Undefined, role |-> "admin"]}

AuditNext ==
  \/ \E email \in RegisterEmails, password \in RegisterPasswords,
        role \in RegisterRoles, store \in RegisterStores :
       Register("Acme Pharmacy", email, password, role, store)
  \/ \E email \in LoginEmails, password \in LoginPasswords, role \in LoginRoles :
       Login(email, password, role)
  \/ \E tok \in Sessions, target \in TargetIds, body \in AuditBodies, logOk \in BOOLEAN :
       UpdateAccountLogged(tok, target, body.status, body.role,
                           UpdateReason(body.status), logOk)

AuditSpec == Init /\ [][AuditNext]_vars

\* role, status, store profile, permissions and status history of an account
Stored(account) ==
  [role |-> account.role, status |-> account.status,
   storeDetails |-> account.storeDetails, permissions |-> account.permissions,
   statusHistory |-> account.statusHistory]

\* C30: whenever updateAccount responds with an error, also when the audit
\* entry cannot be appended, the target's stored role, status, store
\* profile, permission set and status history are as before the request
C30_ErrorLeavesAccount ==
  \A tok \in Sessions, target \in DOMAIN users, body \in AuditBodies, logOk \in BOOLEAN :
    LET r == UpdateAccountLoggedResult(tok, target, body.status, body.role,
                                       UpdateReason(body.status), logOk)
    IN
    r.resp.code >= 400 => Stored(r.users[target]) = Stored(users[target])

====
